---- MODULE Spec2Model ----
(***************************************************************************)
(* A model of cargo-play's pipeline steps (src/src/steps.rs):              *)
(*   extract_headers, rmtemp, mktemp, write_cargo_toml, copy_sources,      *)
(*   run_cargo_build and copy_project.                                     *)
(*                                                                         *)
(* Text is a sequence of one-character strings, a file's content is the    *)
(* sequence of its lines (what str::lines yields), a path is a record of   *)
(* its components, and the file system is a function from the absolute     *)
(* paths that exist to what is there.                                      *)
(***************************************************************************)
EXTENDS Integers, Sequences, FiniteSets, TLC

VARIABLES
    \* extract_headers
    files,          \* the argument: one sequence of lines per file
    headers,        \* the returned Vec<String>
    hpc             \* "idle" | "ready" | "done"

hvars == <<files, headers, hpc>>

(***************************************************************************)
(* Generic helpers                                                         *)
(***************************************************************************)
\* The text from position i on (Rust's s[i-1..]).
DropFirst(s, n) == SubSeq(s, n + 1, Len(s))

RECURSIVE Flatten(_)
\* Iterator::flatten over a sequence of sequences
Flatten(ss) == IF ss = <<>> THEN <<>> ELSE Head(ss) \o Flatten(Tail(ss))

(***************************************************************************)
(* extract_headers                                                         *)
(***************************************************************************)
\* char::is_whitespace, on the characters the model uses
IsWhitespace(c) == c \in {" ", "\t"}

\* str::starts_with
StartsWith(line, prefix) ==
    /\ Len(line) >= Len(prefix)
    /\ SubSeq(line, 1, Len(prefix)) = prefix

ShebangPrefix == <<"#", "!">>
HeaderPrefix == <<"/", "/", "#">>

\* the skip_while predicate
IsPreamble(line) == StartsWith(line, ShebangPrefix) \/ line = <<>>

\* the take_while predicate
IsHeader(line) == StartsWith(line, HeaderPrefix)

RECURSIVE SkipWhilePreamble(_)
SkipWhilePreamble(ls) ==
    IF ls # <<>> /\ IsPreamble(Head(ls)) THEN SkipWhilePreamble(Tail(ls)) ELSE ls

\* A scan that does not stop at the first line without the prefix.
TakeEveryHeader(ls) == SelectSeq(ls, IsHeader)

RECURSIVE TakeWhileHeader(_)
TakeWhileHeader(ls) ==
    IF ls # <<>> /\ IsHeader(Head(ls))
    THEN <<Head(ls)>> \o TakeWhileHeader(Tail(ls))
    ELSE <<>>

\* No trimming at all.
TrimNothing(s) == s

RECURSIVE TrimStart(_)
\* str::trim_start
TrimStart(s) == IF s # <<>> /\ IsWhitespace(Head(s)) THEN TrimStart(Tail(s)) ELSE s

\* line[3..].trim_start()
HeaderText(line) == TrimStart(DropFirst(line, 3))

RECURSIVE MapHeaderText(_)
MapHeaderText(ls) ==
    IF ls = <<>> THEN <<>> ELSE <<HeaderText(Head(ls))>> \o MapHeaderText(Tail(ls))

\* .filter(|s| !s.is_empty())
FilterNonEmpty(ss) == SelectSeq(ss, LAMBDA s : s # <<>>)

\* the closure applied to one file
FileHeaders(file) ==
    FilterNonEmpty(MapHeaderText(TakeWhileHeader(SkipWhilePreamble(file))))

RECURSIVE MapFileHeaders(_)
MapFileHeaders(fs) ==
    IF fs = <<>> THEN <<>> ELSE <<FileHeaders(Head(fs))>> \o MapFileHeaders(Tail(fs))

extract_headers(fs) == Flatten(MapFileHeaders(fs))

(***************************************************************************)
(* Inputs of extract_headers                                               *)
(***************************************************************************)
\* the lines a file is made of
LinePool ==
    { <<"#", "!", "x">>,                \* interpreter marker
      <<>>,                             \* empty line
      <<"/", "/", "#", " ", "a">>,      \* header, leading blank
      <<"/", "/", "#", "b", " ">>,      \* header, trailing blank
      <<"/", "/", "#", " ">>,           \* header with nothing but a blank
      <<"/", "/", "x">>,                \* ordinary comment
      <<" ">> }                         \* a line holding one blank

\* The size of an input: its files plus their lines.
MaxInput == 5

RECURSIVE InputsOfSize(_)
\* every list of files of size n: one more empty file, or one more line in the last file
InputsOfSize(n) ==
    IF n = 0 THEN { <<>> }
    ELSE LET prev == InputsOfSize(n - 1) IN
         { Append(fs, <<>>) : fs \in prev }
         \cup { [fs EXCEPT ![Len(fs)] = Append(@, l)] :
                    fs \in { g \in prev : g # <<>> }, l \in LinePool }

HeaderInputs == UNION { InputsOfSize(n) : n \in 0..MaxInput }

HeadersIdle == files = <<>> /\ headers = <<>> /\ hpc = "idle"

HeadersInit == files \in HeaderInputs /\ headers = <<>> /\ hpc = "ready"

ExtractHeaders ==
    /\ hpc = "ready"
    /\ headers' = extract_headers(files)
    /\ hpc' = "done"
    /\ UNCHANGED files

(***************************************************************************)
(* run_cargo_build                                                         *)
(***************************************************************************)
VARIABLES
    toolchain,      \* Option<String>: <<>> is None, <<s>> is Some(s)
    project,        \* the scratch directory, as the text of its path
    release,        \* bool
    cargo_option,   \* Option<String>: <<>> or <<text>>, text a sequence of characters
    program_args,   \* the program's arguments
    cargo_args,     \* the arguments the Command holds
    build_result,   \* Result<ExitStatus, CargoPlayError>
    bpc             \* "idle" | "ready" | "running" | "done"

bvars == <<toolchain, project, release, cargo_option, program_args, cargo_args,
           build_result, bpc>>

\* u8::is_ascii_whitespace: space, tab, line feed, form feed, carriage return
IsAsciiWhitespace(c) == c \in {" ", "\t", "\n", "\f", "\r"}

RECURSIVE Text(_)
\* the String made of the characters cs
Text(cs) == IF cs = <<>> THEN "" ELSE Head(cs) \o Text(Tail(cs))

RECURSIVE SplitFrom(_, _)
\* The tokens of cs, given the token cur that is being read.
SplitFrom(cs, cur) ==
    IF cs = <<>>
    THEN IF cur = <<>> THEN <<>> ELSE <<Text(cur)>>
    ELSE IF IsAsciiWhitespace(Head(cs))
         THEN (IF cur = <<>> THEN <<>> ELSE <<Text(cur)>>) \o SplitFrom(Tail(cs), <<>>)
         ELSE SplitFrom(Tail(cs), Append(cur, Head(cs)))

\* str::split_ascii_whitespace, collected
split_ascii_whitespace(cs) == SplitFrom(cs, <<>>)

\* PathBuf::join of a directory that does not end in a separator and a file name
JoinText(dir, name) == dir \o "/" \o name

\* The argument list with the release flag pushed before the extra options.
CargoArgsReleaseFirst(tc, proj, rel, opt, pargs) ==
    LET a1 == IF tc # <<>> THEN <<"+" \o tc[1]>> ELSE <<>>
        a2 == a1 \o <<"run", "--manifest-path", JoinText(proj, "Cargo.toml")>>
        a3 == IF rel THEN Append(a2, "--release") ELSE a2
        a4 == IF opt # <<>> THEN a3 \o split_ascii_whitespace(opt[1]) ELSE a3
    IN  Append(a4, "--") \o pargs

\* The arguments run_cargo_build gives the Command, in the order it pushes them.
CargoArgs(tc, proj, rel, opt, pargs) ==
    LET a1 == IF tc # <<>> THEN <<"+" \o tc[1]>> ELSE <<>>
        a2 == a1 \o <<"run", "--manifest-path", JoinText(proj, "Cargo.toml")>>
        a3 == IF opt # <<>> THEN a2 \o split_ascii_whitespace(opt[1]) ELSE a2
        a4 == IF rel THEN Append(a3, "--release") ELSE a3
    IN  Append(a4, "--") \o pargs

(***************************************************************************)
(* Inputs of run_cargo_build                                               *)
(***************************************************************************)
OptionChars == {" ", "\t", "-"}
MaxOptionLen == 4
ProgramArgPool == {"--", "--flag", "value"}
MaxProgramArgs == 2

SeqsUpTo(S, n) == UNION { [1..k -> S] : k \in 0..n }

BuildIdle ==
    /\ toolchain = <<>> /\ project = "" /\ release = FALSE /\ cargo_option = <<>>
    /\ program_args = <<>> /\ cargo_args = <<>> /\ build_result = "none"
    /\ bpc = "idle"

BuildInit ==
    /\ toolchain \in {<<>>, <<"nightly">>}
    /\ project = "/t/p"
    /\ release \in BOOLEAN
    /\ cargo_option \in {<<>>} \cup { <<cs>> : cs \in SeqsUpTo(OptionChars, MaxOptionLen) }
    /\ program_args \in SeqsUpTo(ProgramArgPool, MaxProgramArgs)
    /\ cargo_args = <<>>
    /\ build_result = "none"
    /\ bpc = "ready"

\* Command::new("cargo") ... .status(): the child could not be launched
CargoLaunchFails ==
    /\ bpc = "ready"
    /\ cargo_args' = CargoArgs(toolchain, project, release, cargo_option, program_args)
    /\ build_result' = "Err(launch)"
    /\ bpc' = "done"
    /\ UNCHANGED <<toolchain, project, release, cargo_option, program_args>>

\* Command::new("cargo") ... .status(): the child runs
CargoSpawn ==
    /\ bpc = "ready"
    /\ cargo_args' = CargoArgs(toolchain, project, release, cargo_option, program_args)
    /\ bpc' = "running"
    /\ UNCHANGED <<toolchain, project, release, cargo_option, program_args, build_result>>

\* .status() returns the child's exit status
CargoExit ==
    /\ bpc = "running"
    /\ \E code \in {0, 1, 101} : build_result' = <<"Ok", code>>
    /\ bpc' = "done"
    /\ UNCHANGED <<toolchain, project, release, cargo_option, program_args, cargo_args>>

(***************************************************************************)
(* Paths and the file system                                               *)
(*                                                                         *)
(* A path (Path, PathBuf) is [abs, comps]: whether it starts at the root,  *)
(* and its components, ".." and a leading "." among them. The file system  *)
(* maps each absolute path that exists, a sequence of names, to DirNode or *)
(* to the bytes of the regular file there. The root always exists.         *)
(***************************************************************************)
VARIABLES
    fs              \* the file system

Rel(comps) == [abs |-> FALSE, comps |-> comps]
Abs(comps) == [abs |-> TRUE, comps |-> comps]

DirNode == "<dir>"
\* what a file holds once it has been opened with O_TRUNC and nothing was written
NoBytes == ""

\* the working directory of the process
Cwd == <<"w">>

\* Path::join
Join(base, part) ==
    IF part.abs THEN part ELSE [abs |-> base.abs, comps |-> base.comps \o part.comps]

\* Path::parent: <<>> is None, <<p>> is Some(p)
Parent(p) ==
    IF p.comps = <<>> THEN <<>>
    ELSE << [abs |-> p.abs, comps |-> SubSeq(p.comps, 1, Len(p.comps) - 1)] >>

IsDirAt(f, a) == a = <<>> \/ (a \in DOMAIN f /\ f[a] = DirNode)
IsFileAt(f, a) == a \in DOMAIN f /\ f[a] # DirNode
ExistsAt(f, a) == a = <<>> \/ a \in DOMAIN f

RECURSIVE Walk(_, _, _)
\* The kernel's path walk from directory cur over comps: every component but the
\* last must lead to a directory; the last one need not exist.
Walk(f, cur, comps) ==
    IF comps = <<>> THEN [ok |-> TRUE, path |-> cur]
    ELSE LET c == Head(comps)
             next == IF c = "." THEN cur
                     ELSE IF c = ".."
                          THEN (IF cur = <<>> THEN cur ELSE SubSeq(cur, 1, Len(cur) - 1))
                          ELSE Append(cur, c)
         IN  IF Tail(comps) = <<>> THEN [ok |-> TRUE, path |-> next]
             ELSE IF IsDirAt(f, next) THEN Walk(f, next, Tail(comps))
             ELSE [ok |-> FALSE,
                   path |-> IF ExistsAt(f, next) THEN <<"NotADirectory">> ELSE <<"NotFound">>]

\* The absolute path p names; the empty relative path names nothing.
Resolve(f, p) ==
    IF ~p.abs /\ p.comps = <<>> THEN [ok |-> FALSE, path |-> <<"NotFound">>]
    ELSE Walk(f, IF p.abs THEN <<>> ELSE Cwd, p.comps)

\* Path::is_dir, Path::is_file, Path::exists
is_dir(f, p) == Resolve(f, p).ok /\ IsDirAt(f, Resolve(f, p).path)
is_file(f, p) == Resolve(f, p).ok /\ IsFileAt(f, Resolve(f, p).path)
exists(f, p) == Resolve(f, p).ok /\ ExistsAt(f, Resolve(f, p).path)

Put(f, a, node) == [q \in DOMAIN f \cup {a} |-> IF q = a THEN node ELSE f[q]]

\* std::fs::create_dir (mkdir): [fs, err], err = "" on success
create_dir(f, p) ==
    LET r == Resolve(f, p) IN
    IF ~r.ok THEN [fs |-> f, err |-> r.path[1]]
    ELSE IF ExistsAt(f, r.path) THEN [fs |-> f, err |-> "AlreadyExists"]
    ELSE [fs |-> Put(f, r.path, DirNode), err |-> ""]

RECURSIVE create_dir_all(_, _)
\* std::fs::create_dir_all (DirBuilder::create_dir_all)
create_dir_all(f, p) ==
    IF ~p.abs /\ p.comps = <<>> THEN [fs |-> f, err |-> ""]
    ELSE LET first == create_dir(f, p) IN
         IF first.err = "" THEN first
         ELSE IF first.err # "NotFound"
              THEN (IF is_dir(f, p) THEN [fs |-> f, err |-> ""] ELSE first)
              ELSE IF Parent(p) = <<>> THEN [fs |-> f, err |-> "NoParent"]
                   ELSE LET up == create_dir_all(f, Parent(p)[1]) IN
                        IF up.err # "" THEN up
                        ELSE LET again == create_dir(up.fs, p) IN
                             IF again.err = "" \/ ~is_dir(up.fs, p) THEN again
                             ELSE [fs |-> up.fs, err |-> ""]

\* std::fs::copy: the outcomes, each [fs, err, to]. "to" is the absolute path of
\* the file that was opened for writing (<<>> if none was). Copying a file onto
\* itself opens it with O_TRUNC before it is read; whether the bytes survive is
\* the platform's choice.
copy(f, from, to) ==
    LET src == Resolve(f, from)
        dst == Resolve(f, to)
    IN  IF ~src.ok THEN { [fs |-> f, err |-> src.path[1], to |-> <<>>] }
        ELSE IF ~ExistsAt(f, src.path) THEN { [fs |-> f, err |-> "NotFound", to |-> <<>>] }
        ELSE IF IsDirAt(f, src.path) THEN { [fs |-> f, err |-> "InvalidInput", to |-> <<>>] }
        ELSE IF ~dst.ok THEN { [fs |-> f, err |-> dst.path[1], to |-> <<>>] }
        ELSE IF IsDirAt(f, dst.path) THEN { [fs |-> f, err |-> "IsADirectory", to |-> <<>>] }
        ELSE IF dst.path = src.path
             THEN { [fs |-> Put(f, dst.path, b), err |-> "", to |-> dst.path] :
                        b \in {f[src.path], NoBytes} }
             ELSE { [fs |-> Put(f, dst.path, f[src.path]), err |-> "", to |-> dst.path] }

\* Whether a is at or below the directory d.
Under(a, d) == Len(a) >= Len(d) /\ SubSeq(a, 1, Len(d)) = d

(***************************************************************************)
(* copy_sources                                                            *)
(***************************************************************************)
VARIABLES
    temp,           \* the scratch directory
    sources,        \* the input files, the entry point first
    base,           \* Option<&Path>: the entry point's parent
    idx,            \* the position of the next file of the iterator
    copy_result,    \* [kind, path]: NoResult while running
    cpc,            \* "idle" | "start" | "entry" | "secondary" | "done"
    \* history, for the claims
    fs0,            \* the file system when copy_sources was called
    written,        \* the absolute paths of the files opened for writing
    attempted,      \* the positions of the files whose processing began
    copied,         \* position -> the absolute path its copy was written to
    failed_at       \* the position of the file whose error was returned, or 0

cvars == <<temp, sources, base, idx, copy_result, cpc, fs0, written, attempted,
           copied, failed_at>>

NoPath == Rel(<<>>)
NoResult == [kind |-> "none", path |-> NoPath]
OkResult == [kind |-> "Ok", path |-> NoPath]
IoError == [kind |-> "Io", path |-> NoPath]
DiffPathError(file) == [kind |-> "DiffPathError", path |-> file]

RECURSIVE DiffLoop(_, _, _)
\* the loop of pathdiff::diff_paths over the two component iterators
DiffLoop(a, b, comps) ==
    IF a = <<>> /\ b = <<>> THEN << Rel(comps) >>
    ELSE IF b = <<>> THEN << Rel(comps \o a) >>
    ELSE IF a = <<>> THEN DiffLoop(a, Tail(b), Append(comps, ".."))
    ELSE IF comps = <<>> /\ Head(a) = Head(b) THEN DiffLoop(Tail(a), Tail(b), comps)
    ELSE IF Head(b) = "." THEN DiffLoop(Tail(a), Tail(b), Append(comps, Head(a)))
    ELSE IF Head(b) = ".." THEN <<>>
    ELSE << Rel(comps \o [i \in 1..Len(b) |-> ".."] \o a) >>

\* pathdiff::diff_paths(path, base): <<>> is None
diff_paths(path, b) ==
    IF path.abs # b.abs
    THEN (IF path.abs THEN << path >> ELSE <<>>)
    ELSE DiffLoop(path.comps, b.comps, <<>>)

\* temp.join("src")
Destination == Join(temp, Rel(<<"src">>))

\* The iterator goes on after an item that failed.
AfterItemNoStop(err) == "secondary"

\* collect::<Result<Vec<_>, _>>()?: the first Err ends the iteration
AfterItem(err) == IF err = "" THEN "secondary" ELSE "done"

\* destination.join(part)
SecondaryDst(part) == Join(Destination, part)

\* destination.join("main.rs")
EntryDst == Join(Destination, Rel(<<"main.rs">>))

\* std::fs::create_dir_all(&destination)?
CopyCreateSrc ==
    /\ cpc = "start"
    /\ LET r == create_dir_all(fs, Destination) IN
       /\ fs' = r.fs
       /\ IF r.err = ""
          THEN cpc' = "entry" /\ UNCHANGED copy_result
          ELSE cpc' = "done" /\ copy_result' = IoError
    /\ UNCHANGED <<temp, sources, base, idx, fs0, written, attempted, copied, failed_at>>

\* files.next() is None: there is no entry point, and nothing is copied
CopyNoEntry ==
    /\ cpc = "entry"
    /\ sources = <<>>
    /\ cpc' = "done"
    /\ copy_result' = OkResult
    /\ UNCHANGED <<fs, temp, sources, base, idx, fs0, written, attempted, copied, failed_at>>

\* std::fs::copy(first, dst)?; first.parent()
CopyEntry ==
    /\ cpc = "entry"
    /\ sources # <<>>
    /\ attempted' = attempted \cup {1}
    /\ idx' = 2
    /\ \E out \in copy(fs, sources[1], EntryDst) :
          /\ fs' = out.fs
          /\ written' = IF out.to = <<>> THEN written ELSE written \cup {out.to}
          /\ IF out.err # ""
             THEN /\ cpc' = "done"
                  /\ copy_result' = IoError
                  /\ failed_at' = 1
                  /\ UNCHANGED <<base, copied>>
             ELSE /\ copied' = [copied EXCEPT ![1] = out.to]
                  /\ base' = Parent(sources[1])
                  /\ UNCHANGED failed_at
                  /\ IF Parent(sources[1]) = <<>>
                     THEN cpc' = "done" /\ copy_result' = OkResult
                     ELSE cpc' = "secondary" /\ UNCHANGED copy_result
    /\ UNCHANGED <<temp, sources, fs0>>

\* the closure of the map, applied to the next file, whose diff_paths is None
CopySecondaryNoDiff ==
    /\ cpc = "secondary"
    /\ idx <= Len(sources)
    /\ diff_paths(sources[idx], base[1]) = <<>>
    /\ attempted' = attempted \cup {idx}
    /\ idx' = idx + 1
    /\ copy_result' = DiffPathError(sources[idx])
    /\ failed_at' = idx
    /\ cpc' = AfterItem("DiffPathError")
    /\ UNCHANGED <<fs, temp, sources, base, fs0, written, copied>>

\* the closure of the map, applied to the next file
CopySecondary ==
    /\ cpc = "secondary"
    /\ idx <= Len(sources)
    /\ diff_paths(sources[idx], base[1]) # <<>>
    /\ attempted' = attempted \cup {idx}
    /\ idx' = idx + 1
    /\ LET file == sources[idx]
           dst == SecondaryDst(diff_paths(file, base[1])[1])
           \* let _ = create_dir_all(&parent): the error is dropped
           f1 == IF Parent(dst) = <<>> THEN fs ELSE create_dir_all(fs, Parent(dst)[1]).fs
       IN  \E out \in copy(f1, file, dst) :
              /\ fs' = out.fs
              /\ written' = IF out.to = <<>> THEN written ELSE written \cup {out.to}
              /\ cpc' = AfterItem(out.err)
              /\ IF out.err # ""
                 THEN /\ copy_result' = IoError
                      /\ failed_at' = idx
                      /\ UNCHANGED copied
                 ELSE /\ copied' = [copied EXCEPT ![idx] = out.to]
                      /\ UNCHANGED <<copy_result, failed_at>>
    /\ UNCHANGED <<temp, sources, base, fs0>>

\* the iterator is exhausted: Ok(())
CopyReturn ==
    /\ cpc = "secondary"
    /\ idx > Len(sources)
    /\ cpc' = "done"
    /\ copy_result' = IF copy_result = NoResult THEN OkResult ELSE copy_result
    /\ UNCHANGED <<fs, temp, sources, base, idx, fs0, written, attempted, copied, failed_at>>

(***************************************************************************)
(* The file systems and inputs copy_sources is run on                      *)
(***************************************************************************)
Tree(entries) == [a \in { e[1] : e \in entries } |->
                     (CHOOSE e \in entries : e[1] = a)[2]]

\* the user's files, and the temporary directory /t
BaseEntries ==
    { << <<"w">>, DirNode >>,
      << <<"w", "a">>, DirNode >>,
      << <<"w", "a", "main.rs">>, "MAIN" >>,
      << <<"w", "a", "foo.rs">>, "FOO" >>,
      << <<"w", "a", "b">>, DirNode >>,
      << <<"w", "a", "b", "util.rs">>, "UTIL" >>,
      << <<"w", "top.rs">>, "TOP" >>,
      << <<"t">>, DirNode >> }

ScratchPath == Abs(<<"t", "p">>)

\* what a previous run left in the scratch directory, with a marker file
OldScratchEntries ==
    { << <<"t", "p">>, DirNode >>,
      << <<"t", "p", "Cargo.toml">>, "OLDMANIFEST" >>,
      << <<"t", "p", "src">>, DirNode >>,
      << <<"t", "p", "src", "main.rs">>, "OLDMAIN" >>,
      << <<"t", "p", "canary">>, "I_AM_CANARY" >> }

ScratchStates ==
    { {},                                       \* no scratch directory
      { << <<"t", "p">>, DirNode >> },          \* an empty one
      OldScratchEntries,                        \* a used one
      { << <<"t", "p">>, "NOTADIR" >> } }       \* a regular file in its place

InitialFileSystems == { Tree(BaseEntries \cup s) : s \in ScratchStates }

SourcePool ==
    { Rel(<<"a", "main.rs">>),
      Rel(<<"a", "foo.rs">>),
      Rel(<<"a", "b", "util.rs">>),
      Rel(<<"top.rs">>),
      Abs(<<"w", "a", "main.rs">>),
      Abs(<<"w", "a", "foo.rs">>),
      Rel(<<"..", "w", "a", "foo.rs">>),
      Rel(<<"a", "gone.rs">>) }

MaxSources == 3

CopyIdle ==
    /\ temp = NoPath /\ sources = <<>> /\ base = <<>> /\ idx = 0
    /\ copy_result = NoResult /\ cpc = "idle" /\ fs0 = << >>
    /\ written = {} /\ attempted = {} /\ copied = <<>> /\ failed_at = 0

\* the state in which copy_sources(temp, srcs) is entered
CopyCall(srcs) ==
    /\ sources' = srcs
    /\ base' = <<>> /\ idx' = 1 /\ copy_result' = NoResult /\ cpc' = "start"
    /\ fs0' = fs /\ written' = {} /\ attempted' = {}
    /\ copied' = [i \in 1..Len(srcs) |-> <<>>] /\ failed_at' = 0

CopyInit ==
    /\ fs \in InitialFileSystems
    /\ temp = ScratchPath
    /\ sources \in SeqsUpTo(SourcePool, MaxSources)
    /\ base = <<>> /\ idx = 1 /\ copy_result = NoResult /\ cpc = "start"
    /\ fs0 = fs /\ written = {} /\ attempted = {}
    /\ copied = [i \in 1..Len(sources) |-> <<>>] /\ failed_at = 0

(***************************************************************************)
(* rmtemp, mktemp, write_cargo_toml, and the pipeline that calls them      *)
(***************************************************************************)
VARIABLES
    clean,          \* the --clean option
    manifest_ok,    \* whether CargoManifest::new accepts the directives and edition
    ppc,            \* the pipeline's position
    steps,          \* the steps that have run, in order
    fail_step,      \* the step whose error ended the pipeline, or "none"
    rm_err,         \* what remove_dir_all returned to rmtemp ("" is Ok)
    mktemp_err,     \* what create_dir returned to mktemp ("" is Ok)
    mktemp_ret,     \* what mktemp returned to its caller
    fsp0            \* the file system when the pipeline started

pvars == <<clean, manifest_ok, ppc, steps, fail_step, rm_err, mktemp_err,
           mktemp_ret, fsp0>>

Below(f, d) == { a \in DOMAIN f : Under(a, d) }

Without(f, gone) == [a \in DOMAIN f \ gone |-> f[a]]

\* The subsets of S that hold, with each path, the directories above it in S.
ClosedSubsets(S) ==
    { K \in SUBSET S :
        \A a \in K : \A n \in 1..(Len(a) - 1) :
            SubSeq(a, 1, n) \in S => SubSeq(a, 1, n) \in K }

\* std::fs::remove_dir_all: the outcomes, each [fs, err]. The removal of a
\* directory either removes everything, or ends with an error at an entry that
\* cannot be removed and leaves that entry, the directories above it and whatever
\* it had not reached.
remove_dir_all(f, p) ==
    LET r == Resolve(f, p) IN
    IF ~r.ok THEN { [fs |-> f, err |-> r.path[1]] }
    ELSE IF ~ExistsAt(f, r.path) THEN { [fs |-> f, err |-> "NotFound"] }
    ELSE IF ~IsDirAt(f, r.path) THEN { [fs |-> f, err |-> "NotADirectory"] }
    ELSE LET below == Below(f, r.path) IN
         { [fs |-> Without(f, below), err |-> ""] }
         \cup { [fs |-> Without(f, below \ (K \cup {r.path})), err |-> "PermissionDenied"] :
                    K \in ClosedSubsets(below \ {r.path}) }

\* A purge that removes nothing.
rmtemp_nothing(f, out) == f

\* rmtemp: let _ = remove_dir_all(temp). The file system it leaves, given the
\* outcome out of the removal; the outcome's error is dropped.
rmtemp(f, out) == out.fs

\* mktemp: create_dir(temp), is_err() only logged; the function returns ()
mktemp(f, t) == [fs |-> create_dir(f, t).fs, ret |-> "()"]

\* File::create(dir.join("Cargo.toml")) and write_all: [fs, err]
write_cargo_toml(f, dir, valid) ==
    LET r == Resolve(f, Join(dir, Rel(<<"Cargo.toml">>))) IN
    IF ~valid THEN [fs |-> f, err |-> "Manifest"]
    ELSE IF ~r.ok THEN [fs |-> f, err |-> r.path[1]]
    ELSE IF IsDirAt(f, r.path) THEN [fs |-> f, err |-> "IsADirectory"]
    ELSE [fs |-> Put(f, r.path, "MANIFEST"), err |-> ""]

\* parse_inputs: every input is opened and read; the first failure is returned
parse_inputs_ok(f, srcs) == \A i \in 1..Len(srcs) : is_file(f, srcs[i])

PipelineIdle ==
    /\ clean = FALSE /\ manifest_ok = TRUE /\ ppc = "idle" /\ steps = <<>>
    /\ fail_step = "none" /\ rm_err = "" /\ mktemp_err = "" /\ mktemp_ret = "none"
    /\ fsp0 = << >>

MaxPipelineSources == 2

PipelineInit ==
    /\ fs \in InitialFileSystems
    /\ fsp0 = fs
    /\ temp = ScratchPath
    \* the command line requires at least one input file
    /\ sources \in SeqsUpTo(SourcePool, MaxPipelineSources) \ { <<>> }
    /\ clean \in BOOLEAN
    /\ manifest_ok \in BOOLEAN
    /\ ppc = "parse" /\ steps = <<>> /\ fail_step = "none"
    /\ rm_err = "" /\ mktemp_err = "" /\ mktemp_ret = "none"
    /\ base = <<>> /\ idx = 0 /\ copy_result = NoResult /\ cpc = "idle"
    /\ fs0 = << >> /\ written = {} /\ attempted = {} /\ copied = <<>> /\ failed_at = 0

\* let files = parse_inputs(&opt.src)?
PipelineParse ==
    /\ ppc = "parse"
    /\ steps' = Append(steps, "parse_inputs")
    /\ IF parse_inputs_ok(fs, sources)
       THEN ppc' = (IF clean THEN "rmtemp" ELSE "mktemp") /\ UNCHANGED fail_step
       ELSE ppc' = "failed" /\ fail_step' = "parse_inputs"
    /\ UNCHANGED <<fs, cvars, clean, manifest_ok, rm_err, mktemp_err, mktemp_ret, fsp0>>

\* if opt.clean { rmtemp(&temp) }
PipelineClean ==
    /\ ppc = "rmtemp"
    /\ steps' = Append(steps, "rmtemp")
    /\ \E out \in remove_dir_all(fs, temp) :
          /\ fs' = rmtemp(fs, out)
          /\ rm_err' = out.err
    /\ ppc' = "mktemp"
    /\ UNCHANGED <<cvars, clean, manifest_ok, fail_step, mktemp_err, mktemp_ret, fsp0>>

\* mktemp(&temp)
PipelineMktemp ==
    /\ ppc = "mktemp"
    /\ steps' = Append(steps, "mktemp")
    /\ fs' = mktemp(fs, temp).fs
    /\ mktemp_ret' = mktemp(fs, temp).ret
    /\ mktemp_err' = create_dir(fs, temp).err
    /\ ppc' = "write_cargo_toml"
    /\ UNCHANGED <<cvars, clean, manifest_ok, fail_step, rm_err, fsp0>>

\* write_cargo_toml(&temp, ...)?
PipelineManifest ==
    /\ ppc = "write_cargo_toml"
    /\ steps' = Append(steps, "write_cargo_toml")
    /\ LET r == write_cargo_toml(fs, temp, manifest_ok) IN
       /\ fs' = r.fs
       /\ IF r.err = ""
          THEN ppc' = "copy_sources" /\ UNCHANGED fail_step
          ELSE ppc' = "failed" /\ fail_step' = "write_cargo_toml"
    /\ UNCHANGED <<cvars, clean, manifest_ok, rm_err, mktemp_err, mktemp_ret, fsp0>>

\* copy_sources(&temp, &opt.src) is entered
PipelineCopy ==
    /\ ppc = "copy_sources"
    /\ cpc = "idle"
    /\ steps' = Append(steps, "copy_sources")
    /\ CopyCall(sources)
    /\ ppc' = "copying"
    /\ UNCHANGED <<fs, temp, clean, manifest_ok, fail_step, rm_err, mktemp_err,
                   mktemp_ret, fsp0>>

\* copy_sources(...)? has returned
PipelineCopied ==
    /\ ppc = "copying"
    /\ cpc = "done"
    /\ IF copy_result.kind = "Ok"
       THEN ppc' = "run_cargo_build" /\ UNCHANGED fail_step
       ELSE ppc' = "failed" /\ fail_step' = "copy_sources"
    /\ UNCHANGED <<fs, cvars, clean, manifest_ok, steps, rm_err, mktemp_err,
                   mktemp_ret, fsp0>>

\* run_cargo_build(...)?: the child's exit status becomes the process's
PipelineBuild ==
    /\ ppc = "run_cargo_build"
    /\ steps' = Append(steps, "run_cargo_build")
    /\ \E launched \in BOOLEAN :
          IF launched
          THEN ppc' = "done" /\ UNCHANGED fail_step
          ELSE ppc' = "failed" /\ fail_step' = "run_cargo_build"
    /\ UNCHANGED <<fs, cvars, clean, manifest_ok, rm_err, mktemp_err, mktemp_ret, fsp0>>

(***************************************************************************)
(* copy_project                                                            *)
(***************************************************************************)
VARIABLES
    export_from,    \* the scratch project
    export_to,      \* the destination
    export_result,  \* [kind, path, status]
    cp_started,     \* whether the cp child process was started
    epc,            \* "idle" | "ready" | "cp" | "done"
    fse0            \* the file system when copy_project was called

evars == <<export_from, export_to, export_result, cp_started, epc, fse0>>

NoExport == [kind |-> "none", path |-> NoPath, status |-> 0]
PathExistError(to) == [kind |-> "PathExistError", path |-> to, status |-> 0]

\* the tree below a, moved to b
Moved(f, a, b) ==
    [q \in { b \o DropFirst(x, Len(a)) : x \in Below(f, a) } |->
        f[a \o DropFirst(q, Len(b))]]

\* f with the entries of g added or replaced
Overlay(f, g) == [q \in DOMAIN f \cup DOMAIN g |-> IF q \in DOMAIN g THEN g[q] ELSE f[q]]

\* cp -R from to: [fs, status]
cp_R(f, from, to) ==
    LET src == Resolve(f, from)
        dst == Resolve(f, to)
    IN  IF ~src.ok \/ ~dst.ok THEN [fs |-> f, status |-> 1]
        ELSE IF ~ExistsAt(f, src.path) \/ src.path = <<>> THEN [fs |-> f, status |-> 1]
        ELSE IF IsDirAt(f, dst.path)
             \* an existing directory receives the source under the source's name
             THEN LET into == Append(dst.path, src.path[Len(src.path)]) IN
                  IF Under(into, src.path) \/ (IsFileAt(f, into) /\ IsDirAt(f, src.path))
                       \/ (IsDirAt(f, into) /\ IsFileAt(f, src.path))
                  THEN [fs |-> f, status |-> 1]
                  ELSE [fs |-> Overlay(f, Moved(f, src.path, into)), status |-> 0]
        ELSE IF IsFileAt(f, dst.path) /\ IsDirAt(f, src.path)
             \* cannot overwrite non-directory with directory
             THEN [fs |-> f, status |-> 1]
        ELSE IF dst.path = src.path THEN [fs |-> f, status |-> 1]
        ELSE [fs |-> Overlay(f, Moved(f, src.path, dst.path)), status |-> 0]

\* if to.is_dir() { return Err(PathExistError) }
Refuses(f, to) == is_dir(f, to)

ExportIdle ==
    /\ export_from = NoPath /\ export_to = NoPath /\ export_result = NoExport
    /\ cp_started = FALSE /\ epc = "idle" /\ fse0 = << >>

ExportPool ==
    { Rel(<<"out">>), Rel(<<"a">>), Rel(<<"top.rs">>), Rel(<<"nodir", "out">>),
      Abs(<<"t", "saved">>), Rel(<<"a", "b">>), Rel(<<"a", "foo.rs">>), Abs(<<"t">>) }

ExportInit ==
    /\ fs \in InitialFileSystems
    /\ fse0 = fs
    /\ export_from \in {ScratchPath, Abs(<<"w", "a">>)}
    /\ export_to \in ExportPool
    /\ export_result = NoExport
    /\ cp_started = FALSE
    /\ epc = "ready"

\* the destination is refused
ExportRefuse ==
    /\ epc = "ready"
    /\ Refuses(fs, export_to)
    /\ export_result' = PathExistError(export_to)
    /\ epc' = "done"
    /\ UNCHANGED <<fs, export_from, export_to, cp_started, fse0>>

\* Command::new("cp") ... .status() could not start the child
ExportLaunchFails ==
    /\ epc = "ready"
    /\ ~Refuses(fs, export_to)
    /\ export_result' = [kind |-> "Io", path |-> NoPath, status |-> 0]
    /\ epc' = "done"
    /\ UNCHANGED <<fs, export_from, export_to, cp_started, fse0>>

\* Command::new("cp") ... .status(): the child runs
ExportSpawn ==
    /\ epc = "ready"
    /\ ~Refuses(fs, export_to)
    /\ cp_started' = TRUE
    /\ epc' = "cp"
    /\ UNCHANGED <<fs, export_from, export_to, export_result, fse0>>

\* cp has exited; the closure canonicalizes the destination and unwraps
ExportCpExit ==
    /\ epc = "cp"
    /\ LET r == cp_R(fs, export_from, export_to) IN
       /\ fs' = r.fs
       /\ export_result' =
              IF exists(r.fs, export_to)
              THEN [kind |-> "Ok", path |-> NoPath, status |-> r.status]
              ELSE [kind |-> "panic", path |-> NoPath, status |-> r.status]
    /\ epc' = "done"
    /\ UNCHANGED <<export_from, export_to, cp_started, fse0>>

(***************************************************************************)
(* Specifications                                                          *)
(***************************************************************************)
vars == <<hvars, bvars, fs, cvars, pvars, evars>>

HeadersNext == ExtractHeaders /\ UNCHANGED <<bvars, fs, cvars, pvars, evars>>

InitHeaders == HeadersInit /\ BuildIdle /\ CopyIdle /\ PipelineIdle /\ ExportIdle /\ fs = << >>

SpecHeaders == InitHeaders /\ [][HeadersNext]_vars

BuildNext ==
    \/ CargoLaunchFails /\ UNCHANGED <<hvars, fs, cvars, pvars, evars>>
    \/ CargoSpawn /\ UNCHANGED <<hvars, fs, cvars, pvars, evars>>
    \/ CargoExit /\ UNCHANGED <<hvars, fs, cvars, pvars, evars>>

InitBuild == BuildInit /\ HeadersIdle /\ CopyIdle /\ PipelineIdle /\ ExportIdle /\ fs = << >>

SpecBuild == InitBuild /\ [][BuildNext]_vars

CopyNext ==
    \/ CopyCreateSrc /\ UNCHANGED <<hvars, bvars, pvars, evars>>
    \/ CopyNoEntry /\ UNCHANGED <<hvars, bvars, pvars, evars>>
    \/ CopyEntry /\ UNCHANGED <<hvars, bvars, pvars, evars>>
    \/ CopySecondaryNoDiff /\ UNCHANGED <<hvars, bvars, pvars, evars>>
    \/ CopySecondary /\ UNCHANGED <<hvars, bvars, pvars, evars>>
    \/ CopyReturn /\ UNCHANGED <<hvars, bvars, pvars, evars>>

InitCopy == CopyInit /\ HeadersIdle /\ BuildIdle /\ PipelineIdle /\ ExportIdle

SpecCopy == InitCopy /\ [][CopyNext]_vars

\* The pipeline always has an entry point: CopyNoEntry is never enabled in it.
PipelineNext ==
    \/ PipelineParse /\ UNCHANGED <<hvars, bvars, evars>>
    \/ PipelineClean /\ UNCHANGED <<hvars, bvars, evars>>
    \/ PipelineMktemp /\ UNCHANGED <<hvars, bvars, evars>>
    \/ PipelineManifest /\ UNCHANGED <<hvars, bvars, evars>>
    \/ PipelineCopy /\ UNCHANGED <<hvars, bvars, evars>>
    \/ CopyCreateSrc /\ UNCHANGED <<hvars, bvars, pvars, evars>>
    \/ CopyEntry /\ UNCHANGED <<hvars, bvars, pvars, evars>>
    \/ CopySecondaryNoDiff /\ UNCHANGED <<hvars, bvars, pvars, evars>>
    \/ CopySecondary /\ UNCHANGED <<hvars, bvars, pvars, evars>>
    \/ CopyReturn /\ UNCHANGED <<hvars, bvars, pvars, evars>>
    \/ PipelineCopied /\ UNCHANGED <<hvars, bvars, evars>>
    \/ PipelineBuild /\ UNCHANGED <<hvars, bvars, evars>>

InitPipeline == PipelineInit /\ HeadersIdle /\ BuildIdle /\ ExportIdle

SpecPipeline == InitPipeline /\ [][PipelineNext]_vars

ExportNext ==
    \/ ExportRefuse /\ UNCHANGED <<hvars, bvars, cvars, pvars>>
    \/ ExportSpawn /\ UNCHANGED <<hvars, bvars, cvars, pvars>>
    \/ ExportLaunchFails /\ UNCHANGED <<hvars, bvars, cvars, pvars>>
    \/ ExportCpExit /\ UNCHANGED <<hvars, bvars, cvars, pvars>>

InitExport == ExportInit /\ HeadersIdle /\ BuildIdle /\ CopyIdle /\ PipelineIdle

SpecExport == InitExport /\ [][ExportNext]_vars

(***************************************************************************)
(* Claims about extract_headers                                            *)
(***************************************************************************)
\* A line of the leading preamble: an interpreter marker or an empty line.
C1_Preamble(line) ==
    \/ line = <<>>
    \/ Len(line) >= 2 /\ line[1] = "#" /\ line[2] = "!"

\* A line that starts with the three characters of a directive.
C1_Prefixed(line) ==
    Len(line) >= 3 /\ line[1] = "/" /\ line[2] = "/" /\ line[3] = "#"

\* The first line after the preamble.
C1_RunStart(file) ==
    CHOOSE i \in 1..(Len(file) + 1) :
        /\ \A j \in 1..(i - 1) : C1_Preamble(file[j])
        /\ i = Len(file) + 1 \/ ~C1_Preamble(file[i])

\* The first line after the run of prefixed lines that starts at C1_RunStart.
C1_RunEnd(file) ==
    CHOOSE i \in C1_RunStart(file)..(Len(file) + 1) :
        /\ \A j \in C1_RunStart(file)..(i - 1) : C1_Prefixed(file[j])
        /\ i = Len(file) + 1 \/ ~C1_Prefixed(file[i])

\* A prefixed line without its prefix and without the blanks that follow it.
C1_Stripped(line) ==
    LET k == CHOOSE i \in 4..(Len(line) + 1) :
                 /\ \A j \in 4..(i - 1) : line[j] \in {" ", "\t"}
                 /\ i = Len(line) + 1 \/ line[i] \notin {" ", "\t"}
    IN  SubSeq(line, k, Len(line))

C1_Directives(file) ==
    LET p == C1_RunStart(file)
        q == C1_RunEnd(file)
        raw == [k \in 1..(q - p) |-> C1_Stripped(file[p + k - 1])]
    IN  SelectSeq(raw, LAMBDA d : Len(d) > 0)

RECURSIVE C1_UpTo(_)
\* the directives of the first k files, in file order
C1_UpTo(k) == IF k = 0 THEN <<>> ELSE C1_UpTo(k - 1) \o C1_Directives(files[k])

\* C1: extract_headers returns, in input-file order and without deduplication,
\* the directives of each file: the lines of the contiguous run of "//#" lines
\* that follows the preamble, each without its prefix and leading whitespace,
\* the empty results dropped. Nothing after the run is extracted.
C1_HeadersAreLeadingRuns ==
    hpc = "done" =>
        /\ headers = C1_UpTo(Len(files))
        /\ \A i \in 1..Len(files) :
               Len(FileHeaders(files[i])) <= C1_RunEnd(files[i]) - C1_RunStart(files[i])

\* Two files; one has a "//#" line after its run that was not extracted, and a
\* directive was extracted.
C1_Witness ==
    /\ hpc = "done"
    /\ Len(files) = 2
    /\ headers # <<>>
    /\ \E i \in 1..2 : \E j \in 1..Len(files[i]) :
           /\ j > C1_RunEnd(files[i])
           /\ C1_Prefixed(files[i][j])
           /\ C1_RunEnd(files[i]) > C1_RunStart(files[i])

\* C8 as stated: every returned directive is non-empty and neither starts nor
\* ends with a whitespace character.
C8_TrimmedBothEnds ==
    hpc = "done" =>
        \A i \in 1..Len(headers) :
            /\ headers[i] # <<>>
            /\ ~IsWhitespace(headers[i][1])
            /\ ~IsWhitespace(headers[i][Len(headers[i])])

\* C8 amended: every returned directive is non-empty, does not start with a
\* whitespace character, and is a "//#" line of the input without its prefix
\* and the whitespace after the prefix: whitespace at the end of the line is
\* kept.
C8_TrimmedAtStart ==
    hpc = "done" =>
        \A i \in 1..Len(headers) :
            /\ headers[i] # <<>>
            /\ headers[i][1] \notin {" ", "\t"}
            /\ \E f \in 1..Len(files) : \E j \in 1..Len(files[f]) :
                   LET line == files[f][j]
                       cut == Len(line) - Len(headers[i])
                   IN  /\ cut >= 3
                       /\ C1_Prefixed(line)
                       /\ SubSeq(line, cut + 1, Len(line)) = headers[i]
                       /\ \A k \in 4..cut : line[k] \in {" ", "\t"}

\* A directive that had whitespace on both sides of its text was returned.
C8_Witness ==
    /\ hpc = "done"
    /\ \E i \in 1..Len(headers) : headers[i][Len(headers[i])] = " "
    /\ \E i \in 1..Len(headers) : headers[i] = <<"a">>

(***************************************************************************)
(* Claims about run_cargo_build                                            *)
(***************************************************************************)
\* The maximal runs of characters of cs that are not whitespace, as <<first, last>>.
C2_Runs(cs) ==
    { r \in (1..Len(cs)) \X (1..Len(cs)) :
        /\ r[1] <= r[2]
        /\ \A i \in r[1]..r[2] : cs[i] \notin {" ", "\t", "\n", "\f", "\r"}
        /\ r[1] = 1 \/ cs[r[1] - 1] \in {" ", "\t", "\n", "\f", "\r"}
        /\ r[2] = Len(cs) \/ cs[r[2] + 1] \in {" ", "\t", "\n", "\f", "\r"} }

\* The i-th run, in the order of the text.
C2_Run(cs, i) ==
    CHOOSE r \in C2_Runs(cs) : Cardinality({ q \in C2_Runs(cs) : q[1] < r[1] }) = i - 1

RECURSIVE C2_Chars(_, _, _)
\* the characters first..last of cs as one string
C2_Chars(cs, first, last) ==
    IF first > last THEN "" ELSE cs[first] \o C2_Chars(cs, first + 1, last)

\* C2: the arguments given to the build tool are, in this order: "+<toolchain>"
\* if a toolchain is given, "run", "--manifest-path", <project>/Cargo.toml, the
\* whitespace-separated tokens of cargo_option if given, "--release" if release,
\* "--", and then the program arguments, all of them, unchanged and in order.
C2_ArgumentOrder ==
    bpc \in {"running", "done"} =>
        LET t == Len(toolchain)
            opt == IF cargo_option = <<>> THEN <<>> ELSE cargo_option[1]
            k == Cardinality(C2_Runs(opt))
            r == IF release THEN 1 ELSE 0
            n == Len(program_args)
        IN  /\ Len(cargo_args) = t + 3 + k + r + 1 + n
            /\ t = 1 => cargo_args[1] = "+" \o toolchain[1]
            /\ cargo_args[t + 1] = "run"
            /\ cargo_args[t + 2] = "--manifest-path"
            /\ cargo_args[t + 3] = project \o "/Cargo.toml"
            /\ \A i \in 1..k :
                   cargo_args[t + 3 + i] =
                       C2_Chars(opt, C2_Run(opt, i)[1], C2_Run(opt, i)[2])
            /\ r = 1 => cargo_args[t + 3 + k + 1] = "--release"
            /\ cargo_args[t + 3 + k + r + 1] = "--"
            /\ \A i \in 1..n : cargo_args[t + 3 + k + r + 1 + i] = program_args[i]

\* A run with a toolchain, the release flag, an option text of two tokens and two
\* program arguments.
C2_Witness ==
    /\ bpc = "done"
    /\ toolchain # <<>>
    /\ release
    /\ cargo_option # <<>>
    /\ Cardinality(C2_Runs(cargo_option[1])) = 2
    /\ program_args = <<"--flag", "value">>
    /\ Len(cargo_args) = 10

(***************************************************************************)
(* Claims about copy_sources                                               *)
(***************************************************************************)
SrcDir == <<"t", "p", "src">>
MainRs == <<"t", "p", "src", "main.rs">>

\* The bytes the i-th input file held when copy_sources was called.
C3_Bytes(i) == fs0[Resolve(fs0, sources[i]).path]

\* Every input is a regular file that exists.
C3_AllExist == \A i \in 1..Len(sources) : is_file(fs0, sources[i])

\* <scratch>/src/<p> for the i-th file, <p> its path relative to the parent of the first
C3_Place(i) ==
    Resolve(fs, Join(Abs(SrcDir), diff_paths(sources[i], Parent(sources[1])[1])[1])).path

\* C3 as stated: after a successful copy_sources of existing files the first
\* file's bytes are at <scratch>/src/main.rs and every other file's bytes are at
\* <scratch>/src/<p>; a secondary file that has no relative path makes
\* copy_sources fail with the DiffPathError of that file.
C3_SourcesPlaced ==
    /\ (cpc = "done" /\ copy_result.kind = "Ok"
            /\ sources # <<>> /\ C3_AllExist) =>
           /\ IsFileAt(fs, MainRs) /\ fs[MainRs] = C3_Bytes(1)
           /\ \A i \in 2..Len(sources) :
                  /\ IsFileAt(fs, C3_Place(i))
                  /\ fs[C3_Place(i)] = C3_Bytes(i)
    /\ \A i \in 2..Len(sources) :
           (i \in attempted /\ diff_paths(sources[i], base[1]) = <<>>) =>
               copy_result = [kind |-> "DiffPathError", path |-> sources[i]]

\* C4 as stated: every file copy_sources creates or overwrites lies under
\* <scratch>/src, and no input file is written to.
C4_WritesStayUnderSrc ==
    /\ \A a \in written : Under(a, SrcDir)
    /\ \A i \in 1..Len(sources) :
           is_file(fs0, sources[i]) => fs[Resolve(fs0, sources[i]).path] = C3_Bytes(i)

\* C10 as stated: after a successful copy_sources of a non-empty list,
\* <scratch>/src/main.rs holds the bytes of the first input file, whatever the
\* secondary files are.
C10_EntryPointIsFirstFile ==
    (cpc = "done" /\ copy_result.kind = "Ok" /\ sources # <<>>) =>
        IsFileAt(fs, MainRs) /\ fs[MainRs] = C3_Bytes(1)

\* What C9 says of a state in which a file's error has been returned.
C9_Failed ==
    failed_at # 0 =>
        /\ cpc = "done"
        /\ copy_result.kind \in {"Io", "DiffPathError"}
        /\ copy_result.kind = "DiffPathError" => copy_result.path = sources[failed_at]
        /\ attempted = 1..failed_at
        /\ \A j \in 1..(failed_at - 1) : copied[j] # <<>> /\ IsFileAt(fs, copied[j])
        /\ \A j \in failed_at..Len(sources) : copied[j] = <<>>

\* C9: the files are processed in input order, one position at a time; once a
\* file has failed, copy_sources has returned that file's error, no later file
\* is processed, nothing more is created or copied, and the files copied before
\* it are still there.
C9_FirstFailureIsTerminal ==
    [][ /\ C9_Failed'
        /\ attempted' # attempted =>
               attempted' = attempted \cup {Cardinality(attempted) + 1}
        /\ failed_at # 0 => UNCHANGED <<fs, attempted, copied, copy_result, failed_at>>
      ]_vars

\* The second of three files failed; the first is in the scratch directory, and
\* the third, which needs a directory of its own, was not touched.
C9_Witness ==
    /\ cpc = "done"
    /\ failed_at = 2
    /\ Len(sources) = 3
    /\ sources[3] = Rel(<<"a", "b", "util.rs">>)
    /\ IsFileAt(fs, MainRs)
    /\ ~ExistsAt(fs, <<"t", "p", "src", "b">>)

(***************************************************************************)
(* Claims about the scratch directory: rmtemp, mktemp                      *)
(***************************************************************************)
Canary == <<"t", "p", "canary">>
ManifestFile == <<"t", "p", "Cargo.toml">>
ScratchDir == <<"t", "p">>

\* The position of step s among the steps that ran, or 0.
C5_At(s) ==
    IF \E i \in 1..Len(steps) : steps[i] = s
    THEN CHOOSE i \in 1..Len(steps) : steps[i] = s
    ELSE 0

\* The purge ran, and it ran before whatever creates or writes.
C5_PurgeFirst ==
    /\ C5_At("rmtemp") > 0
    /\ \A s \in {"mktemp", "write_cargo_toml", "copy_sources"} :
           C5_At(s) > 0 => C5_At("rmtemp") < C5_At(s)

\* No file of the previous run is left, but for those this run wrote.
C5_NothingSurvives ==
    /\ Canary \notin DOMAIN fs
    /\ \A a \in DOMAIN fs :
           (Under(a, ScratchDir) /\ IsFileAt(fs, a) /\ a \in DOMAIN fsp0) =>
               \/ a \in written
               \/ a = ManifestFile /\ fs[a] = "MANIFEST"

\* The manifest and the entry point were written by this run.
C5_Repopulated ==
    /\ IsFileAt(fs, ManifestFile) /\ fs[ManifestFile] = "MANIFEST"
    /\ MainRs \in written /\ IsFileAt(fs, MainRs)

\* C5 as stated: a run with clean=true on a scratch directory that holds a
\* marker file ends with the marker absent and the directory repopulated; the
\* purge comes before creation, manifest and sources, and nothing of the
\* previous run survives.
C5_CleanAlwaysPurges ==
    (clean /\ Canary \in DOMAIN fsp0 /\ ppc \in {"done", "failed"}
           /\ fail_step # "parse_inputs") =>
        /\ C5_PurgeFirst
        /\ C5_NothingSurvives
        /\ ppc = "done" => C5_Repopulated

\* C5 amended: the same, when remove_dir_all succeeded. rmtemp drops the error
\* of a removal that failed and the run goes on, and then the marker and other
\* files of the previous run can survive.
C5_CleanPurgesWhenRemoved ==
    (clean /\ Canary \in DOMAIN fsp0 /\ ppc \in {"done", "failed"}
           /\ fail_step # "parse_inputs") =>
        /\ C5_PurgeFirst
        /\ fail_step # "rmtemp"
        /\ rm_err = "" => C5_NothingSurvives
        /\ (rm_err = "" /\ ppc = "done") => C5_Repopulated

\* A clean run on a used scratch directory ended: the marker is gone, the
\* manifest and the entry point are new.
C5_Witness ==
    /\ clean /\ Canary \in DOMAIN fsp0 /\ ppc = "done" /\ rm_err = ""
    /\ Canary \notin DOMAIN fs
    /\ fs[ManifestFile] = "MANIFEST"
    /\ fs[MainRs] = "MAIN"

\* C6 as stated: mktemp succeeds on a directory that exists and leaves it as it
\* is; any other failure of the directory's creation is returned as an error,
\* the pipeline fails at that step and writes no manifest and no sources.
C6_MktempPropagatesFailure ==
    C5_At("mktemp") > 0 =>
        /\ (mktemp_err = "AlreadyExists" /\ is_dir(fs, temp)) => mktemp_ret = "()"
        /\ (mktemp_err # "" /\ ~is_dir(fs, temp)) =>
               /\ mktemp_ret = "Err"
               /\ ppc = "failed" /\ fail_step = "mktemp"
               /\ C5_At("write_cargo_toml") = 0
               /\ C5_At("copy_sources") = 0

(***************************************************************************)
(* Claims about copy_project                                               *)
(***************************************************************************)
\* C7 as stated: a destination that exists, directory or not, is refused with
\* the path-exists error, the copy is not started, and the file system is left
\* as it was; the copy is started only when nothing is at the destination.
C7_ExistingDestinationRefused ==
    /\ cp_started => ~exists(fse0, export_to)
    /\ (epc = "done" /\ exists(fse0, export_to)) =>
           /\ export_result = PathExistError(export_to)
           /\ ~cp_started
           /\ fs = fse0

====
